---- MODULE Spec2Model ----
(***************************************************************************)
(* i3-bind: the binding parser and the line editor of the i3 config file.  *)
(*                                                                         *)
(* Text is modelled as a sequence of characters.  A character is a one     *)
(* letter string, except that the keyword is one symbol: "bindsym" is the  *)
(* keyword as the code spells it, "BINDSYM" is the keyword written in any  *)
(* other letter case.  A file is one sequence of characters with "\n"      *)
(* between the lines, as on disk; Absent is a file that does not exist.    *)
(* out is the list of bindings the last find command printed.              *)
(***************************************************************************)
EXTENDS Integers, Sequences, FiniteSets, TLC

VARIABLES config, backup, last, prev, nops, faulty, out

vars == <<config, backup, last, prev, nops, faulty, out>>

\* ------------------------------------------------------------------ bounds
MaxLines == 2
MaxOps == 2
MaxPartial == 1

\* ------------------------------------------------------------- characters
Absent == <<"<absent>">>

NL == "\n"

\* regexp \s and strings.TrimSpace agree on these characters
IsSpace(c) == c \in {" ", "\t", NL}

\* simple case folding, as (?i) and strings.EqualFold apply it
Fold(c) ==
  CASE c = "K" -> "k"
    [] c = "J" -> "j"
    [] c = "BINDSYM" -> "bindsym"
    [] OTHER -> c

FoldSeq(s) == [i \in 1..Len(s) |-> Fold(s[i])]

EqualFold(a, b) == Len(a) = Len(b) /\ FoldSeq(a) = FoldSeq(b)

RECURSIVE SkipSpace(_, _)
\* the first position at or after i that holds no white space (Len+1: none)
SkipSpace(s, i) ==
  IF i > Len(s) \/ ~IsSpace(s[i]) THEN i ELSE SkipSpace(s, i + 1)

RECURSIVE SkipNonSpace(_, _)
SkipNonSpace(s, i) ==
  IF i > Len(s) \/ IsSpace(s[i]) THEN i ELSE SkipNonSpace(s, i + 1)

RECURSIVE LastNonSpace(_, _)
LastNonSpace(s, i) ==
  IF i < 1 \/ ~IsSpace(s[i]) THEN i ELSE LastNonSpace(s, i - 1)

TrimSpace(s) ==
  LET a == SkipSpace(s, 1)
      b == LastNonSpace(s, Len(s))
  IN IF a > b THEN <<>> ELSE SubSeq(s, a, b)

HasPrefix(s, c) == Len(s) >= 1 /\ s[1] = c

TrimPrefix(s, c) == IF HasPrefix(s, c) THEN Tail(s) ELSE s

HasSuffix(s, c) == Len(s) >= 1 /\ s[Len(s)] = c

Contains(s, c) == \E i \in 1..Len(s) : s[i] = c

\* strings.ToLower
ToLower(s) ==
  [i \in 1..Len(s) |->
     CASE s[i] = "K" -> "k"
       [] s[i] = "J" -> "j"
       [] s[i] = "BINDSYM" -> "bindsym"
       [] OTHER -> s[i]]

\* strings.Contains(s, substr)
ContainsStr(s, substr) ==
  \E i \in 0..(Len(s) - Len(substr)) : SubSeq(s, i + 1, i + Len(substr)) = substr

\* ---------------------------------------------------------------- file I/O
RECURSIVE Join(_)
\* strings.Join(lines, "\n")
Join(lines) ==
  IF Len(lines) = 0 THEN <<>>
  ELSE IF Len(lines) = 1 THEN lines[1]
  ELSE lines[1] \o <<NL>> \o Join(Tail(lines))

RECURSIVE SplitFrom(_, _, _)
SplitFrom(content, start, i) ==
  IF i > Len(content) THEN <<SubSeq(content, start, Len(content))>>
  ELSE IF content[i] = NL
       THEN <<SubSeq(content, start, i - 1)>> \o SplitFrom(content, i + 1, i + 1)
       ELSE SplitFrom(content, start, i + 1)

\* strings.Split(content, "\n"): the empty file is one empty line
Split(content) == SplitFrom(content, 1, 1)

\* readConfig: the lines of the file, or an error when it does not exist
readConfig(file) ==
  IF file = Absent THEN [err |-> "ConfigNotFound", lines |-> <<>>]
  ELSE [err |-> "", lines |-> Split(file)]

\* ioutil.WriteFile(path, data): open with O_CREATE|O_TRUNC, write, close.
\* n = -1: the open fails and the file is untouched; 0 <= n < Len(data): the
\* file was truncated and the write stopped after n bytes; n = Len(data) with
\* an error: the data is written and the close fails.
WriteFile(old, data, n) == IF n = -1 THEN old ELSE SubSeq(data, 1, n)

NoFault == [at |-> "none", n |-> 0]

\* the failures of the two writes of one save; a write that stops early is
\* followed up to MaxPartial bytes
FaultsFor(content) ==
  LET ns == {-1, Len(content)} \cup
            {n \in 0..MaxPartial : n < Len(content)}
  IN {[at |-> f, n |-> n] : f \in {"backup", "config"}, n \in ns}

\* writeConfig with the error of the backup write reported but not returned
\* before the config file is written
writeConfigIgnoringBackupError(lines, cfg, bak, fault) ==
  LET content == Join(lines)
  IN IF fault.at = "backup"
     THEN [config |-> content,
           backup |-> WriteFile(bak, content, fault.n),
           err |-> "BackupFailure",
           log |-> <<[file |-> "backup", ok |-> FALSE],
                     [file |-> "config", ok |-> TRUE]>>]
     ELSE IF fault.at = "config"
     THEN [config |-> WriteFile(cfg, content, fault.n),
           backup |-> content,
           err |-> "WriteFailure",
           log |-> <<[file |-> "backup", ok |-> TRUE],
                     [file |-> "config", ok |-> FALSE]>>]
     ELSE [config |-> content,
           backup |-> content,
           err |-> "",
           log |-> <<[file |-> "backup", ok |-> TRUE],
                     [file |-> "config", ok |-> TRUE]>>]

\* writeConfig: the backup file is written first, then the config file, both
\* with the NEW content; an error of the first write returns before the second
writeConfig(lines, cfg, bak, fault) ==
  LET content == Join(lines)
  IN IF fault.at = "backup"
     THEN [config |-> cfg,
           backup |-> WriteFile(bak, content, fault.n),
           err |-> "BackupFailure",
           log |-> <<[file |-> "backup", ok |-> FALSE]>>]
     ELSE IF fault.at = "config"
     THEN [config |-> WriteFile(cfg, content, fault.n),
           backup |-> content,
           err |-> "WriteFailure",
           log |-> <<[file |-> "backup", ok |-> TRUE],
                     [file |-> "config", ok |-> FALSE]>>]
     ELSE [config |-> content,
           backup |-> content,
           err |-> "",
           log |-> <<[file |-> "backup", ok |-> TRUE],
                     [file |-> "config", ok |-> TRUE]>>]

\* ------------------------------------------------------------------ parser
NoMatch == [ok |-> FALSE, key |-> <<>>, action |-> <<>>, comment |-> <<>>]

RECURSIVE ActionEnd(_, _)
\* (.+?)(?:\s*#\s*(.*))?$ : the lazy action stops at the first position
\* from which the rest of the line is white space and a "#", or at the end
ActionEnd(s, e) ==
  IF e >= Len(s) THEN Len(s)
  ELSE LET h == SkipSpace(s, e + 1)
       IN IF h <= Len(s) /\ s[h] = "#" THEN e ELSE ActionEnd(s, e + 1)

\* bindRegex of parseBindings:
\*   ^\s*bindsym\s+([^\s]+)\s+(.+?)(?:\s*#\s*(.*))?$
\* the submatches 1, 2 and 3 of the leftmost-first match
BindMatch(s) ==
  LET p0 == SkipSpace(s, 1)              \* the keyword
      p2 == SkipSpace(s, p0 + 1)         \* first character of the key
      p3 == SkipNonSpace(s, p2)          \* first character after the key
      p4 == SkipSpace(s, p3)             \* first character after \s+
      \* \s+ is greedy, and gives back one white space when nothing is left
      \* for the action
      a  == IF p4 <= Len(s) THEN p4 ELSE Len(s)
      e  == ActionEnd(s, a)
      h  == SkipSpace(s, e + 1)          \* the "#" of the comment, if any
      c  == SkipSpace(s, h + 1)
  IN IF /\ p0 <= Len(s) /\ s[p0] = "bindsym"
        /\ p2 > p0 + 1
        /\ p3 > p2
        /\ p3 <= Len(s)
        /\ a > p3
        /\ \A i \in a..Len(s) : s[i] # NL
     THEN [ok |-> TRUE,
           key |-> SubSeq(s, p2, p3 - 1),
           action |-> SubSeq(s, a, e),
           comment |-> IF e < Len(s) THEN SubSeq(s, c, Len(s)) ELSE <<>>]
     ELSE NoMatch

\* CommentOf without the test for the ":" of a section heading
CommentOfInheritingHeadings(lines, i) ==
  LET inline == TrimSpace(BindMatch(lines[i]).comment)
      previousLine == TrimSpace(lines[i - 1])
      trimmed == TrimSpace(TrimPrefix(previousLine, "#"))
  IN IF inline = <<>> /\ i > 1
     THEN IF HasPrefix(previousLine, "#") THEN trimmed ELSE inline
     ELSE inline

\* the comment parseBindings gives the binding on line i (1-based)
CommentOf(lines, i) ==
  LET inline == TrimSpace(BindMatch(lines[i]).comment)
      previousLine == TrimSpace(lines[i - 1])
      trimmed == TrimSpace(TrimPrefix(previousLine, "#"))
  IN IF inline = <<>> /\ i > 1
     THEN IF HasPrefix(previousLine, "#") /\ ~HasSuffix(trimmed, ":")
          THEN trimmed
          ELSE inline
     ELSE inline

RECURSIVE ParseFrom(_, _)
ParseFrom(lines, i) ==
  IF i > Len(lines) THEN <<>>
  ELSE LET m == BindMatch(lines[i])
       IN (IF m.ok
           THEN <<[Key |-> m.key,
                   Action |-> TrimSpace(m.action),
                   Comment |-> CommentOf(lines, i),
                   Line |-> i,
                   Raw |-> lines[i]]>>
           ELSE <<>>) \o ParseFrom(lines, i + 1)

parseBindings(lines) == ParseFrom(lines, 1)

\* the first binding whose key equals key case-insensitively is found
Found(bindings, key) ==
  \E i \in 1..Len(bindings) : EqualFold(bindings[i].Key, key)

\* ---------------------------------------------------------------- mutators
\* an edit is the error of the validation, or the new lines to be saved
Rejected(e) == [err |-> e, lines |-> <<>>]

Edited(newLines) == [err |-> "", lines |-> newLines]

\* insertLine(lines, index, newLine), index 0-based
insertLine(lines, index, newLine) ==
  SubSeq(lines, 1, index) \o <<newLine>> \o SubSeq(lines, index + 1, Len(lines))

\* Render with the key and the action in the other order
RenderActionFirst(key, action) == <<"bindsym", " ">> \o action \o <<" ">> \o key

\* fmt.Sprintf("bindsym %s %s", key, action)
Render(key, action) == <<"bindsym", " ">> \o key \o <<" ">> \o action

\* InsertIndex without the search for the last "bindsym" line
InsertIndexAtEnd(lines) == Len(lines)

\* addBinding: the 0-based index at which the new line goes, right after
\* the last line that contains "bindsym", or the end of the file
InsertIndex(lines) ==
  LET hits == {i \in 1..Len(lines) : Contains(TrimSpace(lines[i]), "bindsym")}
  IN IF hits = {} THEN Len(lines)
     ELSE CHOOSE i \in hits : \A j \in hits : j <= i

\* addEdit with the duplicate test comparing the keys case-sensitively
addEditExactKey(file, key, action) ==
  LET r == readConfig(file)
      lines == r.lines
      bindings == parseBindings(lines)
  IN IF r.err # "" THEN Rejected(r.err)
     ELSE IF \E i \in 1..Len(bindings) : bindings[i].Key = key
          THEN Rejected("DuplicateKey")
     ELSE Edited(insertLine(lines, InsertIndex(lines), Render(key, action)))

addEdit(file, key, action) ==
  LET r == readConfig(file)
      lines == r.lines
  IN IF r.err # "" THEN Rejected(r.err)
     ELSE IF Found(parseBindings(lines), key) THEN Rejected("DuplicateKey")
     ELSE Edited(insertLine(lines, InsertIndex(lines), Render(key, action)))

\* RemoveMatch without the (?i) flag
RemoveMatchCaseSensitive(s, key) ==
  LET p0 == SkipSpace(s, 1)
      p2 == SkipSpace(s, p0 + 1)
      n  == Len(key)
  IN /\ p0 <= Len(s) /\ s[p0] = "bindsym"
     /\ \E q \in (p0 + 2)..p2 :
          /\ q + n <= Len(s)
          /\ SubSeq(s, q, q + n - 1) = key
          /\ IsSpace(s[q + n])

\* bindRegex of removeBinding: (?i)^\s*bindsym\s+KEY\s+
RemoveMatch(s, key) ==
  LET p0 == SkipSpace(s, 1)
      p2 == SkipSpace(s, p0 + 1)
      n  == Len(key)
  IN /\ p0 <= Len(s) /\ Fold(s[p0]) = "bindsym"
     /\ \E q \in (p0 + 2)..p2 :
          /\ q + n <= Len(s)
          /\ EqualFold(SubSeq(s, q, q + n - 1), key)
          /\ IsSpace(s[q + n])

removeEdit(file, key) ==
  LET r == readConfig(file)
      lines == r.lines
  IN IF r.err # "" THEN Rejected(r.err)
     ELSE IF ~Found(parseBindings(lines), key) THEN Rejected("NotFound")
     ELSE Edited(SelectSeq(lines, LAMBDA l : ~RemoveMatch(l, key)))

\* bindRegex of commentBinding: (?i)^\s*bindsym\s+KEY\s+(.+?)(?:\s*#.*)?$
CommentMatch(s, key) ==
  LET p0 == SkipSpace(s, 1)
      p2 == SkipSpace(s, p0 + 1)
      n  == Len(key)
  IN /\ p0 <= Len(s) /\ Fold(s[p0]) = "bindsym"
     /\ \E q \in (p0 + 2)..p2 :
          /\ q + n + 1 <= Len(s)
          /\ EqualFold(SubSeq(s, q, q + n - 1), key)
          /\ IsSpace(s[q + n])
          /\ \A i \in (q + n + 1)..Len(s) : s[i] # NL

\* "# " + comment
CommentLine(comment) == <<"#", " ">> \o comment

\* commentLines replacing the previous line whether or not it is a comment
commentLinesOverwritingPrevious(lines, key, comment) ==
  LET hits == {i \in 1..Len(lines) : CommentMatch(lines[i], key)}
  IN IF hits = {} THEN lines
     ELSE LET i == CHOOSE h \in hits : \A j \in hits : h <= j
              prevLine == TrimSpace(lines[i - 1])
              trimmed == TrimSpace(TrimPrefix(prevLine, "#"))
          IN IF i > 1
             THEN IF HasPrefix(prevLine, "#") /\ HasSuffix(trimmed, ":")
                  THEN insertLine(lines, i - 1, CommentLine(comment))
                  ELSE [lines EXCEPT ![i - 1] = CommentLine(comment)]
             ELSE insertLine(lines, i - 1, CommentLine(comment))

\* the loop of commentBinding: the first matching line gets its comment
commentLines(lines, key, comment) ==
  LET hits == {i \in 1..Len(lines) : CommentMatch(lines[i], key)}
  IN IF hits = {} THEN lines
     ELSE LET i == CHOOSE h \in hits : \A j \in hits : h <= j
              prevLine == TrimSpace(lines[i - 1])
              trimmed == TrimSpace(TrimPrefix(prevLine, "#"))
          IN IF i > 1
             THEN IF HasPrefix(prevLine, "#")
                  THEN IF HasSuffix(trimmed, ":")
                       THEN insertLine(lines, i - 1, CommentLine(comment))
                       ELSE [lines EXCEPT ![i - 1] = CommentLine(comment)]
                  ELSE insertLine(lines, i - 1, CommentLine(comment))
             ELSE insertLine(lines, i - 1, CommentLine(comment))

commentEdit(file, key, comment) ==
  LET r == readConfig(file)
      lines == r.lines
  IN IF r.err # "" THEN Rejected(r.err)
     ELSE IF ~Found(parseBindings(lines), key) THEN Rejected("NotFound")
     ELSE Edited(commentLines(lines, key, comment))

\* ------------------------------------------------------------------ inputs
\* the lines the initial files are made of
SampleLines ==
  { <<" ", "bindsym", " ", "J", " ", "y">>,
    <<"bindsym", " ", "k", " ", "x", " ", "#", " ", "c">>,
    <<"BINDSYM", " ", "k", " ", "x">>,
    <<"#", " ", "n">>,
    <<"#", " ", "h", ":">> }

LinesUpTo(n) == UNION {[1..m -> SampleLines] : m \in 1..n}

Keys == { <<"k">>, <<"j">> }

Actions == { <<"x">> }

Comments == { <<"t">>, <<"u">> }

\* ----------------------------------------------------------- state machine
NoOp == [name |-> "none", key |-> <<>>, arg |-> <<>>,
         pre |-> <<>>, preBackup |-> <<>>,
         result |-> "", log |-> <<>>]

Init ==
  /\ config \in {Join(ls) : ls \in LinesUpTo(MaxLines)} \cup {Absent}
  /\ backup = Absent
  /\ last = NoOp
  /\ prev = NoOp
  /\ nops = 0
  /\ faulty = TRUE
  /\ out = <<>>

IOErrors == {"BackupFailure", "WriteFailure"}

\* a command can be run: the runs are followed for MaxOps commands, and up to
\* the first save that fails
CanRun == nops < MaxOps /\ last.result \notin IOErrors

\* one run of a command: the edit is computed from the file and, unless the
\* validation rejects it, saved by writeConfig, whose writes may fail
Run(name, key, arg, edit) ==
  /\ nops' = nops + 1
  /\ prev' = last
  /\ UNCHANGED faulty
  /\ out' = <<>>
  /\ IF edit.err # ""
     THEN /\ UNCHANGED <<config, backup>>
          /\ last' = [name |-> name, key |-> key, arg |-> arg,
                      pre |-> config, preBackup |-> backup,
                      result |-> edit.err, log |-> <<>>]
     ELSE \E fault \in {NoFault} \cup
                       (IF faulty THEN FaultsFor(Join(edit.lines)) ELSE {}) :
            LET w == writeConfig(edit.lines, config, backup, fault)
            IN /\ config' = w.config
               /\ backup' = w.backup
               /\ last' = [name |-> name, key |-> key, arg |-> arg,
                           pre |-> config, preBackup |-> backup,
                           result |-> w.err, log |-> w.log]

AddBinding(key, action) ==
  /\ CanRun
  /\ Run("add", key, action, addEdit(config, key, action))

RemoveBinding(key) ==
  /\ CanRun
  /\ Run("remove", key, <<>>, removeEdit(config, key))

CommentBinding(key, comment) ==
  /\ CanRun
  /\ Run("comment", key, comment, commentEdit(config, key, comment))

Next ==
  \/ \E key \in Keys, action \in Actions : AddBinding(key, action)
  \/ \E key \in Keys : RemoveBinding(key)
  \/ \E key \in Keys, comment \in Comments : CommentBinding(key, comment)

Spec == Init /\ [][Next]_vars

\* the runs on a disk whose writes all succeed, from files one line longer
InitEdit ==
  /\ config \in {Join(ls) : ls \in LinesUpTo(MaxLines + 1)}
  /\ backup = Absent
  /\ last = NoOp
  /\ prev = NoOp
  /\ nops = 0
  /\ faulty = FALSE
  /\ out = <<>>

SpecEdit == InitEdit /\ [][Next]_vars

\* the test of findBindings without strings.ToLower on the fields
matchesTermExactCase(binding, searchLower) ==
  \/ ContainsStr(binding.Key, searchLower)
  \/ ContainsStr(binding.Action, searchLower)
  \/ ContainsStr(binding.Comment, searchLower)

\* the test of the loop of findBindings
matchesTerm(binding, searchLower) ==
  \/ ContainsStr(ToLower(binding.Key), searchLower)
  \/ ContainsStr(ToLower(binding.Action), searchLower)
  \/ ContainsStr(ToLower(binding.Comment), searchLower)

\* the loop of findBindings: the matches, appended in the order of bindings
RECURSIVE findMatches(_, _, _)
findMatches(bindings, searchLower, i) ==
  IF i > Len(bindings) THEN <<>>
  ELSE (IF matchesTerm(bindings[i], searchLower) THEN <<bindings[i]>> ELSE <<>>)
       \o findMatches(bindings, searchLower, i + 1)

\* the search terms of find
Terms == { <<>>, <<"K">>, <<"j">>, <<"x">>, <<"n">>, <<"z">> }

\* i3-bind find <term>: reads and parses the file and prints the matches
FindBindings(searchTerm) ==
  /\ CanRun
  /\ nops' = nops + 1
  /\ prev' = last
  /\ UNCHANGED <<config, backup, faulty>>
  /\ LET r == readConfig(config)
     IN /\ out' = IF r.err # "" THEN <<>>
                  ELSE findMatches(parseBindings(r.lines), ToLower(searchTerm), 1)
        /\ last' = [name |-> "find", key |-> searchTerm, arg |-> <<>>,
                    pre |-> config, preBackup |-> backup,
                    result |-> r.err, log |-> <<>>]

InitQuery ==
  /\ config \in {Join(ls) : ls \in LinesUpTo(MaxLines)} \cup {Absent}
  /\ backup = Absent
  /\ last = NoOp
  /\ prev = NoOp
  /\ nops = 0
  /\ faulty = FALSE
  /\ out = <<>>

NextQuery ==
  \/ Next
  \/ \E searchTerm \in Terms : FindBindings(searchTerm)

SpecQuery == InitQuery /\ [][NextQuery]_vars

\* The command-line arguments as cobra hands them over: args[0] is the key and
\* the action is strings.Join(args[1:], " "), neither is validated. A quoted
\* argument may be empty or hold white space, an action may hold "#".
ArgKeys == { <<"k">>, <<"j">>, <<"k", " ", "j">>, <<>> }
ArgActions ==
  { <<"x">>,
    <<"x", " ", "y">>,
    <<"x", " ", "#", "c">>,
    <<"x", "#">>,
    <<"#", "x">>,
    <<"x", " ">> }

InitArgs ==
  /\ config \in {Join(<<l>>) : l \in SampleLines}
  /\ backup = Absent
  /\ last = NoOp
  /\ prev = NoOp
  /\ nops = 0
  /\ faulty = FALSE
  /\ out = <<>>

NextArgs ==
  \/ \E key \in ArgKeys, action \in ArgActions : AddBinding(key, action)
  \/ \E key \in ArgKeys : RemoveBinding(key)
  \/ \E key \in ArgKeys, comment \in Comments : CommentBinding(key, comment)

SpecArgs == InitArgs /\ [][NextArgs]_vars

\* ------------------------------------------------------------------ claims
Mutators == {"add", "remove", "comment"}

Succeeded(op) == op.name \in Mutators /\ op.result = ""

\* the edit a command computes from the file it read
EditOf(op) ==
  CASE op.name = "add" -> addEdit(op.pre, op.key, op.arg)
    [] op.name = "remove" -> removeEdit(op.pre, op.key)
    [] op.name = "comment" -> commentEdit(op.pre, op.key, op.arg)
    [] OTHER -> Rejected("none")

\* C1: after a successful add, remove or comment the backup file holds the
\* content the config file had before the operation.
C1_BackupHoldsPreMutationContent ==
  Succeeded(last) => backup = last.pre

\* C2: the backup is written before the config file, and when the backup
\* write fails the config file is not written: its content is the one from
\* before the operation.
C2_BackupFailureAbortsBeforeWrite ==
  /\ \A i \in 1..Len(last.log) :
        last.log[i].file = "config" =>
          /\ i > 1
          /\ last.log[i - 1].file = "backup"
          /\ last.log[i - 1].ok
  /\ (\E i \in 1..Len(last.log) :
         last.log[i].file = "backup" /\ ~last.log[i].ok) =>
       /\ last.result = "BackupFailure"
       /\ config = last.pre

C2_Witness ==
  /\ last.name \in Mutators
  /\ last.result = "BackupFailure"
  /\ backup # last.preBackup
  /\ config = last.pre
  /\ EditOf(last).err = ""
  /\ Join(EditOf(last).lines) # last.pre

\* C3: after any add, remove or comment the config file holds the complete
\* new content or exactly the old content; when the write of the config file
\* fails it holds the old content.
C3_AllOrNothing ==
  last.name \in Mutators =>
    /\ last.result = "WriteFailure" => config = last.pre
    /\ \/ config = last.pre
       \/ EditOf(last).err = "" /\ config = Join(EditOf(last).lines)

\* C4: add with a key that an existing binding has (case-insensitively), and
\* remove or comment with a key that no binding has, end with an error and
\* write neither the config file nor the backup file.
C4_ValidationBeforeWrite ==
  LET had == Found(parseBindings(Split(last.pre)), last.key)
      untouched == /\ config = last.pre
                   /\ backup = last.preBackup
                   /\ last.log = <<>>
  IN last.pre # Absent =>
       /\ (last.name = "add" /\ had) =>
            last.result = "DuplicateKey" /\ untouched
       /\ (last.name \in {"remove", "comment"} /\ ~had) =>
            last.result = "NotFound" /\ untouched

C4_Witness ==
  /\ last.name = "add"
  /\ last.result = "DuplicateKey"
  /\ config = last.pre
  /\ LET bs == parseBindings(Split(last.pre))
     IN /\ \E i \in 1..Len(bs) : EqualFold(bs[i].Key, last.key)
        /\ \A i \in 1..Len(bs) : bs[i].Key # last.key

\* the 1-based lines of the file that contain "bindsym"
BindsymLines(lines) == {i \in 1..Len(lines) : Contains(lines[i], "bindsym")}

\* C5: a successful add(key, action) yields the old lines with the one line
\* "bindsym <key> <action>" inserted right after the last line that contains
\* "bindsym", or appended when no line contains it; the old lines are kept
\* unmodified and in order.
C5_AddInsertsAfterLastBindsym ==
  (last.name = "add" /\ last.result = "") =>
    LET old == Split(last.pre)
        new == Split(config)
        hits == BindsymLines(old)
    IN \E p \in 0..Len(old) :
         /\ new = SubSeq(old, 1, p) \o <<Render(last.key, last.arg)>>
                    \o SubSeq(old, p + 1, Len(old))
         /\ IF hits = {} THEN p = Len(old)
            ELSE p \in hits /\ \A j \in hits : j <= p

C5_Witness ==
  /\ last.name = "add"
  /\ last.result = ""
  /\ LET old == Split(last.pre)
     IN /\ BindsymLines(old) # {}
        /\ Len(old) \notin BindsymLines(old)
        /\ Split(config)[Len(old) + 1] = old[Len(old)]

\* a line that starts, after leading white space, with the keyword, white
\* space, the key and a white space, letter case ignored
IsBindsymKeyLine(l, key) ==
  LET t == FoldSeq(SubSeq(l, SkipSpace(l, 1), Len(l)))
      q == SkipSpace(t, 2)
      n == Len(key)
  IN /\ Len(t) >= 1 /\ t[1] = "bindsym"
     /\ q > 2
     /\ q + n <= Len(t)
     /\ SubSeq(t, q, q + n - 1) = FoldSeq(key)
     /\ IsSpace(t[q + n])

\* C6: a successful remove(key) deletes every line that matches
\* "bindsym <key> " case-insensitively and nothing else: afterwards no parsed
\* binding has the key, and the other lines are kept unmodified in order.
C6_RemoveDeletesMatchingLines ==
  (last.name = "remove" /\ last.result = "") =>
    LET old == Split(last.pre)
        kept == SelectSeq(old, LAMBDA l : ~IsBindsymKeyLine(l, last.key))
    IN /\ config = Join(kept)
       /\ ~Found(parseBindings(Split(config)), last.key)

C6_Witness ==
  /\ last.name = "remove"
  /\ last.result = ""
  /\ LET old == Split(last.pre)
     IN /\ \E i \in 1..Len(old) :
             /\ IsBindsymKeyLine(old[i], last.key)
             /\ BindMatch(old[i]).ok
             /\ BindMatch(old[i]).key # last.key
        /\ \E i \in 1..Len(old) : ~IsBindsymKeyLine(old[i], last.key)
        /\ Len(Split(config)) = Len(old) - 1

\* the key, action and comment of every binding of the file
BindingSet(content) ==
  LET bs == parseBindings(Split(content))
  IN {[Key |-> bs[i].Key, Action |-> bs[i].Action, Comment |-> bs[i].Comment] :
        i \in 1..Len(bs)}

\* C7: a successful add(key, action) followed by remove(key) leaves the set
\* of parsed bindings (key, action, comment) as it was before the add.
C7_AddThenRemoveRestoresBindings ==
  (/\ prev.name = "add" /\ prev.result = ""
   /\ last.name = "remove" /\ last.key = prev.key) =>
    BindingSet(config) = BindingSet(prev.pre)

\* the first binding of the file whose key equals key case-insensitively
FirstBinding(content, key) ==
  LET bs == parseBindings(Split(content))
  IN bs[CHOOSE i \in 1..Len(bs) :
          /\ EqualFold(bs[i].Key, key)
          /\ \A j \in 1..(i - 1) : ~EqualFold(bs[j].Key, key)]

\* C8: comment(key, t1) followed by comment(key, t2), t1 # t2, leaves one
\* adopted comment, t2: the line right above the binding is the comment line
\* of t2 and the first call left no second comment line.
C8_SecondCommentReplacesFirst ==
  (/\ prev.name = "comment" /\ prev.result = ""
   /\ last.name = "comment" /\ last.result = ""
   /\ last.key = prev.key /\ last.arg # prev.arg) =>
    LET b == FirstBinding(config, last.key)
        lines == Split(config)
    IN /\ b.Comment = last.arg
       /\ b.Line > 1
       /\ lines[b.Line - 1] = CommentLine(last.arg)
       /\ Len(lines) <= Len(Split(prev.pre)) + 1

\* C9: after a successful comment(key, text) the re-parsed file gives the
\* binding of the key the comment text.
C9_CommentIsParsedBack ==
  (last.name = "comment" /\ last.result = "") =>
    FirstBinding(config, last.key).Comment = last.arg

\* a comment line whose content after the leading "#" ends in ":"
IsHeading(l) ==
  LET t == TrimSpace(l)
  IN HasPrefix(t, "#") /\ HasSuffix(TrimSpace(Tail(t)), ":")

\* C10: every section heading in the file before an add, remove or comment
\* is in the file, with the same text, after it.
C10_HeadingsPreserved ==
  (last.name \in Mutators /\ last.pre # Absent) =>
    LET old == Split(last.pre)
        new == Split(config)
    IN \A i \in 1..Len(old) :
         IsHeading(old[i]) => \E j \in 1..Len(new) : new[j] = old[i]

\* no two bindings of the file have keys that are equal case-insensitively
UniqueKeys(content) ==
  LET bs == parseBindings(Split(content))
  IN \A i, j \in 1..Len(bs) : EqualFold(bs[i].Key, bs[j].Key) => i = j

\* C11: an add, remove or comment, successful or failed, that starts from a
\* file whose binding keys are unique case-insensitively leaves a file whose
\* binding keys are unique case-insensitively; so does any sequence of them.
\* It holds under Spec, whose keys are tokens, and fails under SpecArgs.
C11_KeysStayUnique ==
  (last.name \in Mutators /\ UniqueKeys(last.pre)) => UniqueKeys(config)

\* the position of the first character of the action of a binding line
ActionStart(s) ==
  LET p0 == SkipSpace(s, 1)
      p2 == SkipSpace(s, p0 + 1)
      p4 == SkipSpace(s, SkipNonSpace(s, p2))
  IN IF p4 <= Len(s) THEN p4 ELSE Len(s)

\* the position of the first "#" at or after position i, 0 when there is none
RECURSIVE FirstHash(_, _)
FirstHash(s, i) ==
  IF i > Len(s) THEN 0
  ELSE IF s[i] = "#" THEN i ELSE FirstHash(s, i + 1)

\* the inline comment of a binding line: the trimmed text after the first "#"
\* that follows the first character of the action
InlineSuffix(s) ==
  LET h == FirstHash(s, ActionStart(s) + 1)
  IN IF h = 0 THEN <<>> ELSE TrimSpace(SubSeq(s, h + 1, Len(s)))

\* the comment of the binding on line i by the precedence of the parser
ExpectedComment(lines, i) ==
  LET above == IF i > 1 THEN TrimSpace(lines[i - 1]) ELSE <<>>
      content == TrimSpace(SubSeq(above, 2, Len(above)))
  IN IF InlineSuffix(lines[i]) # <<>> THEN InlineSuffix(lines[i])
     ELSE IF i > 1 /\ HasPrefix(above, "#") /\ ~HasSuffix(content, ":")
          THEN content
          ELSE <<>>

\* C12: of every file the parser returns one binding per matching line, in
\* file order and with the 1-based number and the text of its line; the
\* comment of a binding is its non-empty inline suffix, else the content of
\* the line above when that line is a comment and not a heading, else empty.
C12_ParserCommentPrecedence ==
  config # Absent =>
    LET lines == Split(config)
        bs == parseBindings(lines)
    IN /\ \A n \in 1..Len(bs) :
            /\ bs[n].Line \in 1..Len(lines)
            /\ BindMatch(lines[bs[n].Line]).ok
            /\ bs[n].Raw = lines[bs[n].Line]
            /\ bs[n].Comment = ExpectedComment(lines, bs[n].Line)
       /\ \A m, n \in 1..Len(bs) : m < n => bs[m].Line < bs[n].Line
       /\ \A i \in 1..Len(lines) :
            BindMatch(lines[i]).ok => \E n \in 1..Len(bs) : bs[n].Line = i

\* a command has written a file in which all three cases of the precedence
\* occur: an inline suffix below a comment line, and an inherited comment
C12_Witness ==
  /\ last.name \in Mutators /\ last.result = ""
  /\ LET lines == Split(config)
         bs == parseBindings(lines)
     IN /\ \E n \in 1..Len(bs) :
             /\ bs[n].Line > 1
             /\ HasPrefix(TrimSpace(lines[bs[n].Line - 1]), "#")
             /\ InlineSuffix(bs[n].Raw) # <<>>
             /\ bs[n].Comment = InlineSuffix(bs[n].Raw)
             /\ bs[n].Comment # TrimSpace(TrimPrefix(TrimSpace(lines[bs[n].Line - 1]), "#"))
        /\ \E n \in 1..Len(bs) :
             /\ InlineSuffix(bs[n].Raw) = <<>>
             /\ bs[n].Comment # <<>>

WhitespaceFree(s) == \A i \in 1..Len(s) : ~IsSpace(s[i])

\* the line add renders is in the file, and parsing that line gives one
\* binding with the key and the action it was rendered from
RoundTrips(key, action) ==
  LET bs == parseBindings(<<Render(key, action)>>)
  IN /\ \E i \in 1..Len(Split(config)) : Split(config)[i] = Render(key, action)
     /\ Len(bs) = 1
     /\ bs[1].Key = key
     /\ bs[1].Action = action

\* C13: after a successful add of a (non-empty) whitespace-free key and a
\* non-empty trimmed action, parsing the rendered line `bindsym <key> <action>` yields
\* exactly one binding, with the same key and the same action.
C13_RoundTrip ==
  ( /\ last.name = "add" /\ last.result = ""
    /\ last.key # <<>> /\ WhitespaceFree(last.key)
    /\ last.arg # <<>> /\ TrimSpace(last.arg) = last.arg )
  => RoundTrips(last.key, last.arg)

\* C13 amended: the same for a whitespace-free key and a non-empty trimmed
\* action that has no "#" after its first character.
C13_RoundTripWithoutHash ==
  ( /\ last.name = "add" /\ last.result = ""
    /\ last.key # <<>> /\ WhitespaceFree(last.key)
    /\ last.arg # <<>> /\ TrimSpace(last.arg) = last.arg
    /\ FirstHash(last.arg, 2) = 0 )
  => RoundTrips(last.key, last.arg)

\* a successful add of an action of several words, and one of an action that
\* starts with "#", have been rendered and parse back
C13_Witness ==
  /\ last.name = "add" /\ last.result = ""
  /\ prev.name = "add" /\ prev.result = ""
  /\ last.key # <<>> /\ WhitespaceFree(last.key)
  /\ last.arg = <<"#", "x">>
  /\ prev.key # <<>> /\ WhitespaceFree(prev.key)
  /\ prev.arg = <<"x", " ", "y">>
  /\ RoundTrips(last.key, last.arg)

\* term is, case-insensitively, a substring of s
FoldContains(s, term) ==
  \E i \in 0..(Len(s) - Len(term)) :
    EqualFold(SubSeq(s, i + 1, i + Len(term)), term)

\* C14: find prints exactly the bindings of the file whose key, action or
\* comment has the term as a substring case-insensitively, in the order of
\* the file; with the empty term these are all bindings; find writes neither
\* the config file nor the backup.
C14_FindReturnsMatchesInFileOrder ==
  last.name = "find" =>
    /\ config = last.pre /\ backup = last.preBackup /\ last.log = <<>>
    /\ last.result = "" =>
         LET bs == parseBindings(Split(config))
             hit(b) == \/ FoldContains(b.Key, last.key)
                       \/ FoldContains(b.Action, last.key)
                       \/ FoldContains(b.Comment, last.key)
         IN /\ {out[n] : n \in 1..Len(out)} =
                 {bs[n] : n \in {m \in 1..Len(bs) : hit(bs[m])}}
            /\ \A m, n \in 1..Len(out) : m < n => out[m].Line < out[n].Line
            /\ last.key = <<>> => out = bs

\* find has printed one of the two bindings of an edited file, matched
\* through a letter of the other case
C14_Witness ==
  /\ last.name = "find" /\ last.result = ""
  /\ prev.name \in Mutators /\ prev.result = ""
  /\ Len(parseBindings(Split(config))) = 2
  /\ Len(out) = 1
  /\ last.key # <<>>
  /\ ~ContainsStr(out[1].Key, last.key)
  /\ ~ContainsStr(out[1].Action, last.key)
  /\ ~ContainsStr(out[1].Comment, last.key)

\* key, action and comment of the bindings of the file whose key differs
\* from key case-insensitively, in file order
RECURSIVE OthersFrom(_, _, _)
OthersFrom(bs, key, i) ==
  IF i > Len(bs) THEN <<>>
  ELSE (IF EqualFold(bs[i].Key, key) THEN <<>>
        ELSE <<[Key |-> bs[i].Key, Action |-> bs[i].Action,
                Comment |-> bs[i].Comment]>>)
       \o OthersFrom(bs, key, i + 1)

OtherBindings(content, key) == OthersFrom(parseBindings(Split(content)), key, 1)

\* C15: after a successful remove of a key the bindings of every other key
\* have the key, the action and the comment they had before the remove.
C15_RemoveLeavesOtherBindings ==
  (last.name = "remove" /\ last.result = "")
  => OtherBindings(config, last.key) = OtherBindings(last.pre, last.key)

\* the index of the first binding whose key equals key case-insensitively
FirstIndex(bs, key) ==
  CHOOSE n \in 1..Len(bs) :
    /\ EqualFold(bs[n].Key, key)
    /\ \A m \in 1..(n - 1) : ~EqualFold(bs[m].Key, key)

\* C16: after a successful comment the file has as many bindings as before,
\* in the same order, each with the key and the action it had, and every
\* binding but the targeted one (the first of the key) has the comment it had.
C16_CommentChangesCommentsOnly ==
  (last.name = "comment" /\ last.result = "")
  => LET before == parseBindings(Split(last.pre))
         after == parseBindings(Split(config))
     IN /\ Len(after) = Len(before)
        /\ \A n \in 1..Len(before) :
             /\ after[n].Key = before[n].Key
             /\ after[n].Action = before[n].Action
             /\ n # FirstIndex(before, last.key)
                  => after[n].Comment = before[n].Comment

\* a comment has been written for one of two bindings, the other of which
\* has a comment of its own, and the targeted binding now has the text
C16_Witness ==
  /\ last.name = "comment" /\ last.result = ""
  /\ LET before == parseBindings(Split(last.pre))
         after == parseBindings(Split(config))
     IN /\ Len(before) = 2 /\ Len(after) = 2
        /\ \E n \in 1..2 :
             /\ n # FirstIndex(before, last.key)
             /\ before[n].Comment # <<>>
             /\ after[n].Comment = before[n].Comment
        /\ after[FirstIndex(before, last.key)].Comment = last.arg
        /\ before[FirstIndex(before, last.key)].Comment # last.arg

====
